---- MODULE Spec2Model ----
(***************************************************************************)
(* nixf-diagnose: a front-end that runs the nixf-tidy analyzer on each     *)
(* input file, decodes its JSON diagnostics, renders them as reports and   *)
(* optionally applies the first suggested fix (src/src/main.rs).           *)
(*                                                                         *)
(* A Rust String is modelled as its UTF-8 bytes: a sequence of byte names. *)
(* "a", "0".."3", "{", "}", "X", "Y", "Z" are one-byte characters; "C3"    *)
(* "A9" is the two-byte character U+00E9 and "E2" "82" "AC" the three-byte *)
(* character U+20AC.  All offsets are 0-based as in the program; TLA+      *)
(* sequences are 1-based, so byte offset b is element b + 1.               *)
(*                                                                         *)
(* Specifications:                                                         *)
(*   Spec        main: the files processed in parallel, the exit status    *)
(*   SpecFile    process_file on one file, one loop iteration per step     *)
(*   SpecTable   build_char_byte_table / byte_to_char_offset               *)
(*   SpecFormat  the "{}" message formatting loop                          *)
(*   SpecApply   apply_fixes_to_content                                    *)
(*   SpecPipe    the exchange with the analyzer over two bounded pipes     *)
(*                                                                         *)
(* Outside the model: command-line parsing, the search for the nixf-tidy   *)
(* executable, and the panics of process_file when the source file cannot  *)
(* be read or the child cannot be spawned.                                 *)
(***************************************************************************)
EXTENDS Integers, Sequences, FiniteSets, TLC

VARIABLES
    \* ---- SpecTable
    t_pc, t_text, t_table, t_query, t_answer,
    \* ---- SpecFormat
    f_pc, f_template, f_args, f_formatted,
    \* ---- SpecApply
    a_pc, a_content, a_edits, a_result,
    \* ---- SpecPipe
    drv_pc, to_write, stdin_pipe, stdin_open, stdout_pipe, captured,
    an_mode, an_pending, an_backlog, an_exited, an_result,
    \* ---- SpecFile (one call of process_file)
    cfg, input, pc, diags, idx, reports, all_edits, outcome, disk,
    \* ---- Spec (main)
    main_pc, file_out, file_res, all_reports, exit_status

tableVars == <<t_pc, t_text, t_table, t_query, t_answer>>
fmtVars   == <<f_pc, f_template, f_args, f_formatted>>
applyVars == <<a_pc, a_content, a_edits, a_result>>
pipeVars  == <<drv_pc, to_write, stdin_pipe, stdin_open, stdout_pipe, captured,
               an_mode, an_pending, an_backlog, an_exited, an_result>>
fileVars  == <<input, pc, diags, idx, reports, all_edits, outcome, disk>>
mainVars  == <<main_pc, file_out, file_res, all_reports, exit_status>>
vars == <<tableVars, fmtVars, applyVars, pipeVars, cfg, fileVars, mainVars>>

(***************************************************************************)
(* Bounds of the model.                                                    *)
(***************************************************************************)
MaxChars       == 3   \* characters of a source text in SpecTable
MaxTemplateLen == 4   \* bytes of a message template in SpecFormat
MaxArgLen      == 2   \* bytes of one argument in SpecFormat
MaxArgs        == 2   \* arguments of one message in SpecFormat
MaxEdits       == 2   \* edits handed to apply_fixes_to_content in SpecApply
MaxDiags       == 2   \* entries of the analyzer's JSON array in SpecFile
NFiles         == 2   \* input files in Spec
MaxInput       == 8   \* bytes of source text fed to the analyzer in SpecPipe
StdinCap       == 2   \* capacity of the pipe to the analyzer in SpecPipe
StdoutCap      == 2   \* capacity of the pipe from the analyzer in SpecPipe

(***************************************************************************)
(* Generic helpers.                                                        *)
(***************************************************************************)
SeqsUpTo(S, n) == UNION {[1..k -> S] : k \in 0..n}

RECURSIVE Concat(_)
Concat(ss) == IF ss = <<>> THEN <<>> ELSE Head(ss) \o Concat(Tail(ss))

None == "None"

(***************************************************************************)
(* UTF-8: char::len_utf8 and str::is_char_boundary on the byte names.      *)
(***************************************************************************)
ContinuationBytes == {"A9", "82", "AC"}
AsciiBytes == {"a", "{", "}", "0", "1", "2", "3", "X", "Y", "Z"}

len_utf8_one(lead) == 1

len_utf8(lead) == IF lead = "C3" THEN 2 ELSE IF lead = "E2" THEN 3 ELSE 1

is_char_boundary(s, b) ==
    \/ b = 0
    \/ b = Len(s)
    \/ b > 0 /\ b < Len(s) /\ s[b + 1] \notin ContinuationBytes

Chars == {<<"a">>, <<"C3", "A9">>, <<"E2", "82", "AC">>}

(***************************************************************************)
(* build_char_byte_table: one entry per character, the running byte        *)
(* offset before it.                                                       *)
(***************************************************************************)
RECURSIVE build_loop(_, _, _)
build_loop(s, byte_pos, table) ==
    IF byte_pos >= Len(s) THEN table
    ELSE build_loop(s, byte_pos + len_utf8(s[byte_pos + 1]), Append(table, byte_pos))

build_char_byte_table(s) == build_loop(s, 0, <<>>)

(***************************************************************************)
(* byte_to_char_offset: slice::binary_search(..).unwrap().  The search is  *)
(* the standard library's loop over [left, right); Err(_).unwrap() panics, *)
(* which is the result Panic here.                                         *)
(***************************************************************************)
Panic == -1

RECURSIVE binary_search(_, _, _, _)
binary_search(table, x, left, right) ==
    IF left >= right THEN Panic
    ELSE LET mid == left + ((right - left) \div 2)
         IN  IF table[mid + 1] = x THEN mid
             ELSE IF table[mid + 1] < x THEN binary_search(table, x, mid + 1, right)
             ELSE binary_search(table, x, left, mid)

byte_to_char_offset(table, byte_pos) == binary_search(table, byte_pos, 0, Len(table))

(***************************************************************************)
(* JSON values as serde_json::Value: a tag t and the payload.              *)
(***************************************************************************)
JStr(s) == [t |-> "str", s |-> s]
JNum(n) == [t |-> "num", n |-> n]
JArr(a) == [t |-> "arr", a |-> a]
JNull   == [t |-> "null"]

(***************************************************************************)
(* str::replacen("{}", arg, 1): the first occurrence of the two bytes "{"  *)
(* "}" in s is replaced by arg; without an occurrence s is returned.       *)
(***************************************************************************)
RECURSIVE find_placeholder(_, _)
find_placeholder(s, i) ==
    IF i + 1 > Len(s) THEN 0
    ELSE IF s[i] = "{" /\ s[i + 1] = "}" THEN i
    ELSE find_placeholder(s, i + 1)

replacen(s, arg) ==
    LET i == find_placeholder(s, 1)
    IN  IF i = 0 THEN s ELSE SubSeq(s, 1, i - 1) \o arg \o SubSeq(s, i + 2, Len(s))

(***************************************************************************)
(* The formatting loop of process_file, used for the diagnostic message    *)
(* and for each note message: every argument that is a JSON string         *)
(* replaces the first "{}" of the message formatted so far.                *)
(***************************************************************************)
RECURSIVE format_loop(_, _)
format_loop(formatted_message, args_array) ==
    IF args_array = <<>> THEN formatted_message
    ELSE LET arg == Head(args_array)
         IN  format_loop(IF arg.t = "str" THEN replacen(formatted_message, arg.s)
                         ELSE formatted_message,
                         Tail(args_array))

UnknownError == <<"Unknown error">>
UnknownNote  == <<"Unknown note">>

format_message(message, args, default) ==
    LET template == IF message.t = "str" THEN message.s ELSE default
    IN  IF args.t = "arr" THEN format_loop(template, args.a) ELSE template

(***************************************************************************)
(* apply_fixes_to_content.  sort_by is a stable sort on descending start;  *)
(* String::replace_range panics when start > end or when an end of the     *)
(* range is not on a character boundary (PanicStr).                        *)
(***************************************************************************)
PanicStr == <<"!panic">>

RECURSIVE insert_sorted(_, _)
insert_sorted(sorted, e) ==
    IF sorted = <<>> THEN <<e>>
    ELSE IF Head(sorted).start >= e.start
         THEN <<Head(sorted)>> \o insert_sorted(Tail(sorted), e)
         ELSE <<e>> \o sorted

RECURSIVE sort_loop(_, _)
sort_loop(sorted, rest) ==
    IF rest = <<>> THEN sorted
    ELSE sort_loop(insert_sorted(sorted, Head(rest)), Tail(rest))

sort_by_start_desc(es) == sort_loop(<<>>, es)

replace_range(s, start, end, new_text) ==
    IF start > end \/ ~is_char_boundary(s, start) \/ ~is_char_boundary(s, end)
    THEN PanicStr
    ELSE SubSeq(s, 1, start) \o new_text \o SubSeq(s, end + 1, Len(s))

RECURSIVE apply_loop(_, _)
apply_loop(result, sorted_fixes) ==
    IF sorted_fixes = <<>> \/ result = PanicStr THEN result
    ELSE LET fix == Head(sorted_fixes)
         IN  apply_loop(IF fix.end <= Len(result)
                        THEN replace_range(result, fix.start, fix.end, fix.new_text)
                        ELSE result,
                        Tail(sorted_fixes))

apply_fixes_to_content(content, edits) ==
    IF edits = <<>> THEN content
    ELSE apply_loop(content, sort_by_start_desc(edits))

(***************************************************************************)
(* The idle values of each group of variables: a specification drives one  *)
(* group and leaves the others at these values.                            *)
(***************************************************************************)
TableOff ==
    /\ t_pc = "off" /\ t_text = <<>> /\ t_table = <<>> /\ t_query = 0 /\ t_answer = 0
FormatOff ==
    /\ f_pc = "off" /\ f_template = <<>> /\ f_args = <<>> /\ f_formatted = <<>>
ApplyOff ==
    /\ a_pc = "off" /\ a_content = <<>> /\ a_edits = <<>> /\ a_result = <<>>
PipeOff ==
    /\ drv_pc = "off" /\ to_write = 0 /\ stdin_pipe = 0 /\ stdin_open = FALSE
    /\ stdout_pipe = 0 /\ captured = 0 /\ an_mode = "off" /\ an_pending = 0
    /\ an_backlog = 0 /\ an_exited = FALSE /\ an_result = "off"
CfgOff == cfg = [only |-> None, ignore |-> {}, auto_fix |-> FALSE]
FileOff ==
    /\ input = <<>> /\ pc = "off" /\ diags = <<>> /\ idx = 0 /\ reports = <<>>
    /\ all_edits = <<>> /\ outcome = <<>> /\ disk = <<>>
MainOff ==
    /\ main_pc = "off" /\ file_out = <<>> /\ file_res = <<>> /\ all_reports = <<>>
    /\ exit_status = 0

(***************************************************************************)
(* SpecTable: a source text of up to MaxChars characters; the table is     *)
(* built, then byte offsets are translated.                                *)
(***************************************************************************)
Texts == {Concat(cs) : cs \in SeqsUpTo(Chars, MaxChars)}

InitTable ==
    /\ t_pc = "start" /\ t_text \in Texts /\ t_table = <<>> /\ t_query = 0 /\ t_answer = 0
    /\ FormatOff /\ ApplyOff /\ PipeOff /\ CfgOff /\ FileOff /\ MainOff

BuildTable ==
    /\ t_pc = "start"
    /\ t_table' = build_char_byte_table(t_text)
    /\ t_pc' = "built"
    /\ UNCHANGED <<t_text, t_query, t_answer>>
    /\ UNCHANGED <<fmtVars, applyVars, pipeVars, cfg, fileVars, mainVars>>

Translate ==
    /\ t_pc \in {"built", "translated"}
    /\ \E b \in 0..(Len(t_text) + 1) :
          /\ t_query' = b
          /\ t_answer' = byte_to_char_offset(t_table, b)
    /\ t_pc' = "translated"
    /\ UNCHANGED <<t_text, t_table>>
    /\ UNCHANGED <<fmtVars, applyVars, pipeVars, cfg, fileVars, mainVars>>

NextTable == BuildTable \/ Translate

SpecTable == InitTable /\ [][NextTable]_vars

\* The byte offsets at which a character of s begins.
CharStarts(s) == {b \in 0..(Len(s) - 1) : s[b + 1] \notin ContinuationBytes}

\* C5: the table is strictly increasing, has one entry per character, entry i
\* being the byte offset at which character i begins (the identity when every
\* character is one byte); a translated offset that begins a character yields
\* its index, and every other offset fails.
C5_OffsetTranslation ==
    /\ t_pc \in {"built", "translated"} =>
          /\ Len(t_table) = Cardinality(CharStarts(t_text))
          /\ \A i \in 1..Len(t_table) : t_table[i] \in CharStarts(t_text)
          /\ \A i \in 1..(Len(t_table) - 1) : t_table[i] < t_table[i + 1]
          /\ (\A b \in 1..Len(t_text) : t_text[b] \in AsciiBytes)
                => \A i \in 1..Len(t_table) : t_table[i] = i - 1
    /\ t_pc = "translated" =>
          IF t_query \in CharStarts(t_text)
          THEN t_answer # Panic /\ t_table[t_answer + 1] = t_query
          ELSE t_answer = Panic

\* C5 witness: the offset after a two-byte character was translated.
C5_Witness ==
    /\ t_pc = "translated"
    /\ t_text = <<"C3", "A9", "a">>
    /\ t_query = 2 /\ t_answer = 1

(***************************************************************************)
(* SpecFormat: a template and a list of string arguments over the same     *)
(* alphabet; the formatting loop is applied once.                          *)
(***************************************************************************)
FormatAlphabet == {"{", "}", "a"}

InitFormat ==
    /\ f_pc = "start"
    /\ f_template \in SeqsUpTo(FormatAlphabet, MaxTemplateLen)
    /\ f_args \in SeqsUpTo({JStr(s) : s \in SeqsUpTo(FormatAlphabet, MaxArgLen)}, MaxArgs)
    /\ f_formatted = <<>>
    /\ TableOff /\ ApplyOff /\ PipeOff /\ CfgOff /\ FileOff /\ MainOff

FormatMessage ==
    /\ f_pc = "start"
    /\ f_formatted' = format_message(JStr(f_template), JArr(f_args), UnknownError)
    /\ f_pc' = "formatted"
    /\ UNCHANGED <<f_template, f_args>>
    /\ UNCHANGED <<tableVars, applyVars, pipeVars, cfg, fileVars, mainVars>>

NextFormat == FormatMessage

SpecFormat == InitFormat /\ [][NextFormat]_vars

\* Positional substitution: the template is scanned once from the left, the
\* i-th "{}" of the template is replaced by the i-th argument, placeholders
\* beyond the arguments stay, arguments beyond the placeholders are unused.
RECURSIVE Positional(_, _)
Positional(template, args) ==
    IF template = <<>> THEN <<>>
    ELSE IF args # <<>> /\ Len(template) >= 2 /\ template[1] = "{" /\ template[2] = "}"
         THEN Head(args).s \o Positional(SubSeq(template, 3, Len(template)), Tail(args))
         ELSE <<Head(template)>> \o Positional(Tail(template), args)

\* C4: for every template and every list of string arguments the formatted
\* message is the positional substitution of the arguments into the template.
C4_PositionalFormat ==
    f_pc = "formatted" => f_formatted = Positional(f_template, f_args)

(***************************************************************************)
(* SpecApply: a content and a list of up to MaxEdits edits, in any order;  *)
(* apply_fixes_to_content is applied once.                                 *)
(***************************************************************************)
Contents == {<<>>, <<"0", "1">>, <<"0", "1", "2", "3">>}
NewTexts == {<<>>, <<"X">>, <<"Y", "Z">>}
MaxOffset == 4
EditsOf(offsets, texts) == [start : offsets, end : offsets, new_text : texts]

InitApply ==
    /\ a_pc = "start"
    /\ a_content \in Contents
    /\ a_edits \in SeqsUpTo(EditsOf(0..MaxOffset, NewTexts), MaxEdits)
    /\ a_result = <<>>
    /\ TableOff /\ FormatOff /\ PipeOff /\ CfgOff /\ FileOff /\ MainOff

ApplyFixes ==
    /\ a_pc = "start"
    /\ a_result' = apply_fixes_to_content(a_content, a_edits)
    /\ a_pc' = "applied"
    /\ UNCHANGED <<a_content, a_edits>>
    /\ UNCHANGED <<tableVars, fmtVars, pipeVars, cfg, fileVars, mainVars>>

NextApply == ApplyFixes

SpecApply == InitApply /\ [][NextApply]_vars

InRange(content, e) == e.start <= e.end /\ e.end <= Len(content)
NonOverlapping(es) ==
    \A i, j \in 1..Len(es) : i # j => es[i].end <= es[j].start \/ es[j].end <= es[i].start

\* The content with each range of es replaced, es being in ascending order of
\* position: every range is read against the offsets of the original content.
RECURSIVE Splice(_, _, _)
Splice(content, from, es) ==
    IF es = <<>> THEN SubSeq(content, from + 1, Len(content))
    ELSE SubSeq(content, from + 1, Head(es).start) \o Head(es).new_text
         \o Splice(content, Head(es).end, Tail(es))

Orders(n) == {p \in [1..n -> 1..n] : \A i, j \in 1..n : i # j => p[i] # p[j]}
Ascending(es, p) == \A i, j \in 1..Len(es) : i < j => es[p[i]].end <= es[p[j]].start

\* C2: for pairwise non-overlapping edits within the content, in any order,
\* the result is the content with each range replaced by its new text, the
\* ranges read against the original content (two edits on the same empty
\* range may land in either order); no edits leave the content as it is.
C2_AppliedAgainstOriginal ==
    (a_pc = "applied" /\ NonOverlapping(a_edits) /\ \A i \in 1..Len(a_edits) : InRange(a_content, a_edits[i]))
       => /\ \E p \in Orders(Len(a_edits)) :
                /\ Ascending(a_edits, p)
                /\ a_result = Splice(a_content, 0, [i \in 1..Len(a_edits) |-> a_edits[p[i]]])
          /\ a_edits = <<>> => a_result = a_content

(***************************************************************************)
(* SpecPipe: process_file's exchange with the analyzer.  The driver spawns *)
(* the child, write_all()s the whole source text to its stdin, and only    *)
(* then calls wait_with_output(), which closes stdin and drains stdout.    *)
(* Both pipes are bounded: a write to a full pipe blocks.  The analyzer    *)
(* either reads its whole input before it answers ("batch") or emits one   *)
(* byte of output per byte of input as it goes ("stream").                 *)
(***************************************************************************)
Terminal == {"Decoded", "SubprocessFailed", "ParseFailed"}

InitPipe ==
    /\ drv_pc = "Idle"
    /\ to_write \in 0..MaxInput
    /\ stdin_pipe = 0 /\ stdin_open = FALSE /\ stdout_pipe = 0 /\ captured = 0
    /\ an_mode \in {"batch", "stream"}
    /\ an_pending = 0 /\ an_backlog = 0 /\ an_exited = FALSE /\ an_result = "none"
    /\ TableOff /\ FormatOff /\ ApplyOff /\ CfgOff /\ FileOff /\ MainOff

PipeRest == <<tableVars, fmtVars, applyVars, cfg, fileVars, mainVars>>

\* cmd.spawn() with piped stdin and stdout
Spawn ==
    /\ drv_pc = "Idle"
    /\ drv_pc' = "Spawned" /\ stdin_open' = TRUE
    /\ UNCHANGED <<to_write, stdin_pipe, stdout_pipe, captured,
                   an_mode, an_pending, an_backlog, an_exited, an_result>>
    /\ UNCHANGED PipeRest

\* write_all: one more byte enters the pipe, which must have room
WriteStdin ==
    /\ drv_pc = "Spawned" /\ to_write > 0 /\ stdin_pipe < StdinCap
    /\ stdin_pipe' = stdin_pipe + 1 /\ to_write' = to_write - 1
    /\ UNCHANGED <<drv_pc, stdin_open, stdout_pipe, captured,
                   an_mode, an_pending, an_backlog, an_exited, an_result>>
    /\ UNCHANGED PipeRest

\* write_all returns: the whole source text is written
Fed ==
    /\ drv_pc = "Spawned" /\ to_write = 0
    /\ drv_pc' = "Fed"
    /\ UNCHANGED <<to_write, stdin_pipe, stdin_open, stdout_pipe, captured,
                   an_mode, an_pending, an_backlog, an_exited, an_result>>
    /\ UNCHANGED PipeRest

\* wait_with_output drops (closes) the child's stdin before it reads
CloseStdin ==
    /\ drv_pc = "Fed"
    /\ drv_pc' = "AwaitingOutput" /\ stdin_open' = FALSE
    /\ UNCHANGED <<to_write, stdin_pipe, stdout_pipe, captured,
                   an_mode, an_pending, an_backlog, an_exited, an_result>>
    /\ UNCHANGED PipeRest

\* wait_with_output reads the child's stdout to its end
ReadStdout ==
    /\ drv_pc = "AwaitingOutput" /\ stdout_pipe > 0
    /\ stdout_pipe' = stdout_pipe - 1 /\ captured' = captured + 1
    /\ UNCHANGED <<drv_pc, to_write, stdin_pipe, stdin_open,
                   an_mode, an_pending, an_backlog, an_exited, an_result>>
    /\ UNCHANGED PipeRest

\* the child has exited and its output is read: status and JSON checks
Reap ==
    /\ drv_pc = "AwaitingOutput" /\ an_exited /\ stdout_pipe = 0
    /\ drv_pc' = IF an_result = "failed" THEN "SubprocessFailed"
                 ELSE IF an_result = "garbage" THEN "ParseFailed"
                 ELSE "Decoded"
    /\ UNCHANGED <<to_write, stdin_pipe, stdin_open, stdout_pipe, captured,
                   an_mode, an_pending, an_backlog, an_exited, an_result>>
    /\ UNCHANGED PipeRest

\* the analyzer reads a byte of its input; it has no output left to write
AnalyzerRead ==
    /\ an_mode \in {"batch", "stream"} /\ an_pending = 0 /\ stdin_pipe > 0
    /\ stdin_pipe' = stdin_pipe - 1
    /\ IF an_mode = "stream"
       THEN an_pending' = 1 /\ UNCHANGED an_backlog
       ELSE an_backlog' = an_backlog + 1 /\ UNCHANGED an_pending
    /\ UNCHANGED <<drv_pc, to_write, stdin_open, stdout_pipe, captured,
                   an_mode, an_exited, an_result>>
    /\ UNCHANGED PipeRest

\* the analyzer reads the end of its input: stdin is closed and empty
AnalyzerEof ==
    /\ an_mode \in {"batch", "stream"} /\ an_pending = 0
    /\ drv_pc # "Idle" /\ ~stdin_open /\ stdin_pipe = 0
    /\ an_mode' = "eof" /\ an_pending' = an_backlog /\ an_backlog' = 0
    /\ UNCHANGED <<drv_pc, to_write, stdin_pipe, stdin_open, stdout_pipe, captured,
                   an_exited, an_result>>
    /\ UNCHANGED PipeRest

\* the analyzer writes a byte of output; the pipe must have room
AnalyzerWrite ==
    /\ an_pending > 0 /\ stdout_pipe < StdoutCap
    /\ stdout_pipe' = stdout_pipe + 1 /\ an_pending' = an_pending - 1
    /\ UNCHANGED <<drv_pc, to_write, stdin_pipe, stdin_open, captured,
                   an_mode, an_backlog, an_exited, an_result>>
    /\ UNCHANGED PipeRest

\* the analyzer exits once its input has ended and its output is written
AnalyzerExit ==
    /\ an_mode = "eof" /\ an_pending = 0 /\ ~an_exited
    /\ an_exited' = TRUE
    /\ an_result' \in {"json", "garbage", "failed"}
    /\ UNCHANGED <<drv_pc, to_write, stdin_pipe, stdin_open, stdout_pipe, captured,
                   an_mode, an_pending, an_backlog>>
    /\ UNCHANGED PipeRest

NextPipe ==
    \/ Spawn \/ WriteStdin \/ Fed \/ CloseStdin \/ ReadStdout \/ Reap
    \/ AnalyzerRead \/ AnalyzerEof \/ AnalyzerWrite \/ AnalyzerExit

SpecPipe == InitPipe /\ [][NextPipe]_vars

\* C8: the exchange never deadlocks: until the driver is in one of the terminal
\* states Decoded, SubprocessFailed or ParseFailed, the driver or the
\* analyzer can take a step.  (It fails where the driver is blocked in
\* write_all on a full stdin pipe while the analyzer is blocked writing to a
\* full stdout pipe.)
C8_NeverDeadlocks == drv_pc \notin Terminal => ENABLED NextPipe

(***************************************************************************)
(* process_file: the decoding of one entry of the analyzer's JSON array.   *)
(*                                                                         *)
(* An entry is a record: keys is the set of keys the JSON object has (the  *)
(* empty set for an entry that is no object), the other fields are the     *)
(* JSON values under those keys.  A range whose lCur.offset and            *)
(* rCur.offset are both unsigned integers is [t |-> "range", l, r]; any    *)
(* other value stands for a range on which one of the two lookups fails.   *)
(***************************************************************************)
AllKeys == {"sname", "message", "range", "severity", "args", "notes", "fixes"}
NoteKeys == {"message", "args", "range"}

JRange(l, r) == [t |-> "range", l |-> l, r |-> r]

\* the seven diag.get(..) of the if-let: every key must be present
entry_complete(diag) == AllKeys \subseteq diag.keys

\* --only: `rule != sname` compares the String with the Value
passes_only(only, sname) == only = None \/ (sname.t = "str" /\ sname.s = only)

\* --ignore: `ignore_rules.iter().any(|rule| rule == sname)`
passes_ignore_any(ignore, sname) == TRUE

passes_ignore(ignore, sname) == ~(sname.t = "str" /\ sname.s \in ignore)

\* the Edits pushed for the edits array of the first fix: an edit without a
\* string newText or without both offsets is passed over
RECURSIVE collect_edits(_)
collect_edits(edits) ==
    IF edits = <<>> THEN <<>>
    ELSE LET edit == Head(edits)
         IN  (IF edit.newText.t = "str" /\ edit.range.t = "range"
              THEN <<[start |-> edit.range.l, end |-> edit.range.r,
                      new_text |-> edit.newText.s]>>
              ELSE <<>>) \o collect_edits(Tail(edits))

\* whether the fix collection branch is taken and ends in `continue`
collects_fix_always(auto_fix, edits_so_far, fixes) ==
    /\ auto_fix
    /\ fixes.t = "arr" /\ Len(fixes.a) > 0
    /\ fixes.a[1].edits.t = "arr"

collects_fix(auto_fix, edits_so_far, fixes) ==
    /\ auto_fix /\ Len(edits_so_far) = 0
    /\ fixes.t = "arr" /\ Len(fixes.a) > 0
    /\ fixes.a[1].edits.t = "arr"

\* severity.as_i64().unwrap_or(1) and the match on it
report_kind(severity) ==
    LET n == IF severity.t = "num" THEN severity.n ELSE 1
    IN  IF n \in {0, 1} THEN "Error"
        ELSE IF n = 2 THEN "Warning"
        ELSE IF n \in {3, 4} THEN "Advice"
        ELSE "Error"

\* the label of one note, <<>> when the note lacks a key or its range an
\* offset; a label whose offset cannot be translated carries Panic
note_labels(table, note) ==
    IF ~(NoteKeys \subseteq note.keys) \/ note.range.t # "range" THEN <<>>
    ELSE <<[start |-> byte_to_char_offset(table, note.range.l),
            end |-> byte_to_char_offset(table, note.range.r),
            message |-> format_message(note.message, note.args, UnknownNote)]>>

RECURSIVE all_note_labels(_, _)
all_note_labels(table, notes_array) ==
    IF notes_array = <<>> THEN <<>>
    ELSE note_labels(table, Head(notes_array)) \o all_note_labels(table, Tail(notes_array))

\* the report built for an entry whose range has both offsets
build_report(table, diag) ==
    [kind    |-> report_kind(diag.severity),
     code    |-> IF diag.sname.t = "str" THEN diag.sname.s ELSE "!unwrap",
     message |-> format_message(diag.message, diag.args, UnknownError),
     start   |-> byte_to_char_offset(table, diag.range.l),
     end     |-> byte_to_char_offset(table, diag.range.r),
     labels  |-> IF diag.notes.t = "arr" THEN all_note_labels(table, diag.notes.a) ELSE <<>>]

\* an unwrap() on the way to the report fails: an offset that is not in the
\* table, or an sname that is no string
report_panics(r) ==
    \/ r.start = Panic \/ r.end = Panic \/ r.code = "!unwrap"
    \/ \E i \in 1..Len(r.labels) : r.labels[i].start = Panic \/ r.labels[i].end = Panic

\* One iteration of `for diag in diags`: st holds reports and all_edits; the
\* result adds what became of the entry:
\*   "skipped"   a required key is missing
\*   "filtered"  rejected by --only or --ignore
\*   "fixed"     the edits of its first fix were collected (`continue`)
\*   "nospan"    no report, the range lacks an offset
\*   "rendered"  a report was pushed
\*   "panic"     an unwrap() failed and the thread panicked
process_diag(config, table, st, diag) ==
    IF ~entry_complete(diag) THEN [st EXCEPT !.outcome = "skipped"]
    ELSE IF ~passes_only(config.only, diag.sname) THEN [st EXCEPT !.outcome = "filtered"]
    ELSE IF ~passes_ignore(config.ignore, diag.sname) THEN [st EXCEPT !.outcome = "filtered"]
    ELSE IF collects_fix(config.auto_fix, st.all_edits, diag.fixes)
         THEN [st EXCEPT !.all_edits = @ \o collect_edits(diag.fixes.a[1].edits.a),
                         !.outcome = "fixed"]
    ELSE IF diag.range.t # "range" THEN [st EXCEPT !.outcome = "nospan"]
    ELSE LET r == build_report(table, diag)
         IN  IF report_panics(r) THEN [st EXCEPT !.outcome = "panic"]
             ELSE [st EXCEPT !.reports = Append(@, r), !.outcome = "rendered"]

(***************************************************************************)
(* What the analyzer hands back: its exit status and its stdout, which is  *)
(* not UTF-8, not JSON, a JSON value that is no array, or an array.        *)
(***************************************************************************)
InvalidUtf8 == [t |-> "invalid_utf8"]
InvalidJson == [t |-> "invalid_json"]
EmptyText   == [t |-> "empty"]

\* String::from_utf8(output.stdout).unwrap_or_default()
from_utf8_or_default(stdout) == IF stdout.t = "invalid_utf8" THEN EmptyText ELSE stdout

\* serde_json::from_str fails on text that is no JSON, the empty text included
from_str_fails(text) == text.t \in {"empty", "invalid_json"}

\* the state process_file returns in, before the loop over the entries
output_state_trusting(out) ==
    IF from_str_fails(from_utf8_or_default(out.stdout)) THEN "ParseFailed"
    ELSE "Loop"

output_state(out) ==
    IF ~out.success THEN "SubprocessFailed"
    ELSE IF from_str_fails(from_utf8_or_default(out.stdout)) THEN "ParseFailed"
    ELSE "Loop"

\* diagnostics.as_array(): the entries to loop over
output_entries(out) == IF out.stdout.t = "arr" THEN out.stdout.a ELSE <<>>

(***************************************************************************)
(* SpecFile: process_file on one file.  The source text is "a" followed by *)
(* the two-byte character U+00E9: three bytes, characters at bytes 0 and   *)
(* 1, end of text at byte 3, byte 2 inside a character.                    *)
(***************************************************************************)
FileText == <<"a", "C3", "A9">>

Configs == [only : {None, "E1"}, ignore : {{}, {"E1"}, {"E2"}}, auto_fix : BOOLEAN]

EditJ(l, r, text) == [newText |-> JStr(text), range |-> JRange(l, r)]
FixOne     == [edits |-> JArr(<<EditJ(0, 1, <<"X">>)>>)]
FixOther   == [edits |-> JArr(<<EditJ(1, 3, <<"Y">>)>>)]
FixEmpty   == [edits |-> JArr(<<>>)]
FixNoEdits == [edits |-> JNull]
FixBadEdit == [edits |-> JArr(<<[newText |-> JNull, range |-> JRange(0, 1)],
                                [newText |-> JStr(<<"Z">>), range |-> JNull]>>)]

NoteAt(l, r) == [keys |-> NoteKeys, message |-> JStr(<<"{", "}">>),
                 args |-> JArr(<<JStr(<<"a">>)>>), range |-> JRange(l, r)]

\* a well-formed entry: rule E1, severity 1, the span of the first character
Plain ==
    [keys |-> AllKeys, sname |-> JStr("E1"), message |-> JStr(<<"a", "{", "}">>),
     severity |-> JNum(1), args |-> JArr(<<JStr(<<"a">>)>>), range |-> JRange(0, 1),
     notes |-> JArr(<<>>), fixes |-> JArr(<<>>)]

\* well-formed entries: either rule, a span inside the text or one that
\* reaches its end, without a fix or with one
CoreEntries ==
    {[Plain EXCEPT !.sname = JStr(n), !.range = r, !.fixes = f] :
        n \in {"E1", "E2"},
        r \in {JRange(0, 1), JRange(1, 3)},
        f \in {JArr(<<>>), JArr(<<FixOne>>)}}

\* entries that differ from Plain in one respect
OddEntries ==
    {[Plain EXCEPT !.fixes = JArr(<<FixEmpty>>)],
     [Plain EXCEPT !.fixes = JArr(<<FixOther, FixOne>>)],
     [Plain EXCEPT !.fixes = JArr(<<FixNoEdits>>)],
     [Plain EXCEPT !.fixes = JArr(<<FixBadEdit>>)],
     [Plain EXCEPT !.sname = JNum(7)],
     [Plain EXCEPT !.keys = AllKeys \ {"fixes"}],
     [Plain EXCEPT !.keys = {}],
     [Plain EXCEPT !.range = JNull],
     [Plain EXCEPT !.range = JRange(0, 2)],
     [Plain EXCEPT !.severity = JStr("high"), !.message = JNum(7), !.args = JNull,
                   !.notes = JNull, !.fixes = JNull],
     [Plain EXCEPT !.severity = JNum(3), !.notes = JArr(<<NoteAt(0, 1)>>)],
     [Plain EXCEPT !.notes = JArr(<<NoteAt(1, 3)>>)],
     [Plain EXCEPT !.notes = JArr(<<[NoteAt(0, 1) EXCEPT !.keys = {"message"}]>>)]}

Entries == CoreEntries \cup OddEntries

ProcOutputs ==
    {[success |-> TRUE, stdout |-> JArr(a)] : a \in SeqsUpTo(Entries, MaxDiags)}
    \cup {[success |-> TRUE, stdout |-> x] : x \in {InvalidUtf8, InvalidJson, JNum(0)}}
    \cup {[success |-> FALSE, stdout |-> x] : x \in {InvalidUtf8, JArr(<<>>), JArr(<<Plain>>)}}

FileRest == <<tableVars, fmtVars, applyVars, pipeVars, mainVars>>

InitFile ==
    /\ cfg \in Configs
    /\ input = FileText /\ disk = FileText
    /\ pc = "Idle" /\ diags = <<>> /\ idx = 0
    /\ reports = <<>> /\ all_edits = <<>> /\ outcome = <<>>
    /\ TableOff /\ FormatOff /\ ApplyOff /\ PipeOff /\ MainOff

\* the file is read, the child spawned, the text written to its stdin
SpawnAndFeed ==
    /\ pc = "Idle"
    /\ pc' = "AwaitingOutput"
    /\ UNCHANGED <<cfg, input, diags, idx, reports, all_edits, outcome, disk>>
    /\ UNCHANGED FileRest

\* wait_with_output, then the status, UTF-8 and JSON checks
WaitWithOutput ==
    /\ pc = "AwaitingOutput"
    /\ \E out \in ProcOutputs :
          /\ pc' = output_state(out)
          /\ diags' = IF output_state(out) = "Loop" THEN output_entries(out) ELSE <<>>
    /\ UNCHANGED <<cfg, input, idx, reports, all_edits, outcome, disk>>
    /\ UNCHANGED FileRest

\* one iteration of the loop over the entries
ProcessDiag ==
    /\ pc = "Loop" /\ idx < Len(diags)
    /\ LET st == process_diag(cfg, build_char_byte_table(input),
                              [reports |-> reports, all_edits |-> all_edits, outcome |-> ""],
                              diags[idx + 1])
       IN  /\ reports' = st.reports
           /\ all_edits' = st.all_edits
           /\ outcome' = Append(outcome, st.outcome)
           /\ pc' = IF st.outcome = "panic" THEN "Panicked" ELSE "Loop"
    /\ idx' = idx + 1
    /\ UNCHANGED <<cfg, input, diags, disk>>
    /\ UNCHANGED FileRest

\* after the loop: the edits are applied and the file rewritten (the write
\* may fail, which is only reported), and the reports are returned
WriteFixes ==
    /\ pc = "Loop" /\ idx = Len(diags)
    /\ IF cfg.auto_fix /\ all_edits # <<>>
       THEN LET fixed_content == apply_fixes_to_content(input, all_edits)
            IN  IF fixed_content = PanicStr
                THEN pc' = "Panicked" /\ UNCHANGED disk
                ELSE /\ pc' = "Decoded"
                     /\ \E written \in BOOLEAN :
                           disk' = IF written THEN fixed_content ELSE disk
       ELSE pc' = "Decoded" /\ UNCHANGED disk
    /\ UNCHANGED <<cfg, input, diags, idx, reports, all_edits, outcome>>
    /\ UNCHANGED FileRest

NextFile == SpawnAndFeed \/ WaitWithOutput \/ ProcessDiag \/ WriteFixes

SpecFile == InitFile /\ [][NextFile]_vars

(***************************************************************************)
(* process_file as a whole: the loop over the entries stops at a panic.    *)
(***************************************************************************)
RECURSIVE process_loop(_, _, _, _)
process_loop(config, table, acc, entries) ==
    IF entries = <<>> \/ acc.panicked THEN acc
    ELSE LET st == process_diag(config, table,
                       [reports |-> acc.reports, all_edits |-> acc.all_edits, outcome |-> ""],
                       Head(entries))
         IN  process_loop(config, table,
                          [reports   |-> st.reports,
                           all_edits |-> st.all_edits,
                           outcome   |-> Append(acc.outcome, st.outcome),
                           panicked  |-> st.outcome = "panic"],
                          Tail(entries))

\* the result of process_file(.., input_file) on the analyzer's output `out`,
\* `written` telling whether std::fs::write succeeds
process_file(config, text, out, written) ==
    IF output_state(out) # "Loop"
    THEN [state |-> output_state(out), reports |-> <<>>, all_edits |-> <<>>,
          outcome |-> <<>>, disk |-> text]
    ELSE LET acc == process_loop(config, build_char_byte_table(text),
                        [reports |-> <<>>, all_edits |-> <<>>, outcome |-> <<>>,
                         panicked |-> FALSE],
                        output_entries(out))
             fixing == config.auto_fix /\ acc.all_edits # <<>> /\ ~acc.panicked
             fixed_content == IF fixing THEN apply_fixes_to_content(text, acc.all_edits)
                              ELSE text
         IN  [state     |-> IF acc.panicked \/ fixed_content = PanicStr THEN "Panicked"
                            ELSE "Decoded",
              reports   |-> acc.reports,
              all_edits |-> acc.all_edits,
              outcome   |-> acc.outcome,
              disk      |-> IF fixing /\ written /\ fixed_content # PanicStr
                            THEN fixed_content ELSE text]

\* main: a non-empty report list is printed and the process exits with 1;
\* otherwise main returns, which is exit status 0
exit_code_by_severity(rs) == IF \E i \in 1..Len(rs) : rs[i].kind = "Error" THEN 1 ELSE 0

exit_code(rs) == IF rs # <<>> THEN 1 ELSE 0

(***************************************************************************)
(* Spec: main.  Each of the NFiles files is handed to process_file by the  *)
(* rayon pool, in any order; the results are flat-mapped in file order.  A *)
(* panic in a task is propagated to main and aborts the process (status    *)
(* 101).                                                                   *)
(***************************************************************************)
Files == 1..NFiles

Advice == [Plain EXCEPT !.severity = JNum(3)]
MainEntries ==
    {Advice,
     [Plain EXCEPT !.sname = JStr("E2")],
     [Plain EXCEPT !.fixes = JArr(<<FixOne>>)],
     [Plain EXCEPT !.sname = JStr("E2"), !.fixes = JArr(<<FixOne>>)],
     [Plain EXCEPT !.range = JRange(1, 3)],
     [Plain EXCEPT !.sname = JNum(7)]}

MainOutputs ==
    {[success |-> TRUE, stdout |-> JArr(a)] : a \in SeqsUpTo(MainEntries, 1)}
    \cup {[success |-> TRUE, stdout |-> JArr(a)] :
             a \in {<<[Plain EXCEPT !.fixes = JArr(<<FixOne>>)], Advice>>,
                    <<[Plain EXCEPT !.sname = JStr("E2")], [Plain EXCEPT !.range = JNull]>>}}
    \cup {[success |-> TRUE, stdout |-> x] : x \in {InvalidUtf8, InvalidJson, JNum(0)}}
    \cup {[success |-> FALSE, stdout |-> x] : x \in {JArr(<<>>), JArr(<<Plain>>)}}

NoOutput == [success |-> FALSE, stdout |-> JNull]
Pending == [state |-> "Pending", reports |-> <<>>, all_edits |-> <<>>, outcome |-> <<>>,
            disk |-> FileText]

MainRest == <<tableVars, fmtVars, applyVars, pipeVars, fileVars>>

Init ==
    /\ cfg \in Configs
    /\ main_pc = "running"
    /\ file_out = [f \in Files |-> NoOutput]
    /\ file_res = [f \in Files |-> Pending]
    /\ all_reports = <<>> /\ exit_status = 0
    /\ TableOff /\ FormatOff /\ ApplyOff /\ PipeOff /\ FileOff

\* a task of the pool runs process_file on file f
ProcessFile(f) ==
    /\ main_pc = "running" /\ file_res[f].state = "Pending"
    /\ \E out \in MainOutputs, written \in BOOLEAN :
          /\ file_out' = [file_out EXCEPT ![f] = out]
          /\ file_res' = [file_res EXCEPT ![f] = process_file(cfg, FileText, out, written)]
    /\ UNCHANGED <<cfg, main_pc, all_reports, exit_status>>
    /\ UNCHANGED MainRest

\* every task has returned: collect, print, exit
Collect ==
    /\ main_pc = "running"
    /\ \A f \in Files : file_res[f].state \notin {"Pending", "Panicked"}
    /\ all_reports' = Concat([f \in Files |-> file_res[f].reports])
    /\ exit_status' = exit_code(all_reports')
    /\ main_pc' = "exited"
    /\ UNCHANGED <<cfg, file_out, file_res>>
    /\ UNCHANGED MainRest

\* a task has panicked: the panic reaches main and the process aborts
Abort ==
    /\ main_pc = "running"
    /\ \E f \in Files : file_res[f].state = "Panicked"
    /\ main_pc' = "aborted" /\ exit_status' = 101
    /\ UNCHANGED <<cfg, file_out, file_res, all_reports>>
    /\ UNCHANGED MainRest

Next == (\E f \in Files : ProcessFile(f)) \/ Collect \/ Abort

Spec == Init /\ [][Next]_vars

(***************************************************************************)
(* Properties of process_file (SpecFile).  outcome[i] is what became of    *)
(* entry i of diags, for the entries the loop has reached.                 *)
(***************************************************************************)
\* the filters as the command line states them
Allowed(config, diag) ==
    /\ config.only # None => (diag.sname.t = "str" /\ diag.sname.s = config.only)
    /\ ~(diag.sname.t = "str" /\ diag.sname.s \in config.ignore)

Complete(diag) == \A k \in AllKeys : k \in diag.keys

\* the entry has a first fix with an edits array
HasFix(diag) ==
    diag.fixes.t = "arr" /\ diag.fixes.a # <<>> /\ diag.fixes.a[1].edits.t = "arr"

\* the well-formed edits of the entry's first fix
FirstFixEdits(diag) == collect_edits(diag.fixes.a[1].edits.a)

\* every field has the JSON type the analyzer's protocol gives it
WellTyped(diag) ==
    /\ Complete(diag)
    /\ diag.sname.t = "str" /\ diag.message.t = "str" /\ diag.severity.t = "num"
    /\ diag.args.t = "arr" /\ diag.notes.t = "arr" /\ diag.fixes.t = "arr"
    /\ diag.range.t = "range"

\* start <= end <= byte length, both on character boundaries
ValidSpan(text, range) ==
    /\ range.t = "range"
    /\ range.l <= range.r /\ range.r <= Len(text)
    /\ is_char_boundary(text, range.l) /\ is_char_boundary(text, range.r)

\* a span at which a character begins at both ends (the end of text excluded)
InnerSpan(text, range) ==
    /\ ValidSpan(text, range)
    /\ range.l \in CharStarts(text) /\ range.r \in CharStarts(text)

NotesOf(diag) == IF diag.notes.t = "arr" THEN diag.notes.a ELSE <<>>

\* C3 as stated: at most one entry has a Fix collected, and after an entry
\* whose Fix was collected every later entry that passes the filters (and is
\* well formed, its spans inside the text) is rendered as a report.
C3_OneFixCollected ==
    /\ Cardinality({i \in 1..Len(outcome) : outcome[i] = "fixed"}) <= 1
    /\ \A i, j \in 1..Len(outcome) :
          (i < j /\ outcome[i] = "fixed" /\ WellTyped(diags[j]) /\ Allowed(cfg, diags[j])
             /\ InnerSpan(input, diags[j].range)
             /\ \A n \in 1..Len(NotesOf(diags[j])) : InnerSpan(input, NotesOf(diags[j])[n].range))
          => outcome[j] = "rendered"

\* C3 amended: a Fix is collected only while the working edit set is empty;
\* the edit set holds the edits of the first Fix of one entry and of nothing
\* else; once the edit set is non-empty no later entry has a Fix collected
\* or adds an edit: it is skipped, filtered or takes the rendering path.
C3_OneFixQueued ==
    /\ \A i \in 1..Len(outcome) : outcome[i] = "fixed" =>
          /\ cfg.auto_fix /\ HasFix(diags[i])
          /\ \A j \in 1..(i - 1) : outcome[j] = "fixed" => FirstFixEdits(diags[j]) = <<>>
    /\ all_edits # <<>> =>
          \E i \in 1..Len(outcome) :
             /\ outcome[i] = "fixed"
             /\ all_edits = FirstFixEdits(diags[i])
             /\ \A j \in (i + 1)..Len(outcome) : outcome[j] # "fixed"
    /\ all_edits = <<>> =>
          \A i \in 1..Len(outcome) : outcome[i] = "fixed" => FirstFixEdits(diags[i]) = <<>>

\* C3 witness: the first entry's Fix was collected and the second entry, which
\* has a Fix too, was rendered.
C3_Witness ==
    /\ pc = "Decoded" /\ cfg.auto_fix
    /\ outcome = <<"fixed", "rendered">>
    /\ HasFix(diags[2]) /\ Len(diags[1].fixes.a) = 2
    /\ all_edits = FirstFixEdits(diags[1]) /\ Len(reports) = 1

\* an entry with a required field missing or of the wrong JSON type
Malformed(diag) == ~WellTyped(diag)

\* C9: decoding is never aborted by one bad entry: an entry with a required
\* field missing or of the wrong JSON type does not end the loop with a
\* panic, so the entries after it are still reached.
C9_BadEntryNeverAborts ==
    \A i \in 1..Len(outcome) : Malformed(diags[i]) => outcome[i] # "panic"

\* C10: an entry that reaches the rendering step with a span (and note spans)
\* satisfying start <= end <= byte length on character boundaries, the end
\* of the text included, is rendered as a report.
C10_ValidSpanRendered ==
    \A i \in 1..Len(outcome) :
       (/\ WellTyped(diags[i])
        /\ outcome[i] \notin {"filtered", "fixed"}
        /\ ValidSpan(input, diags[i].range)
        /\ \A n \in 1..Len(diags[i].notes.a) :
              NoteKeys \subseteq diags[i].notes.a[n].keys
                 => ValidSpan(input, diags[i].notes.a[n].range))
       => outcome[i] = "rendered"

(***************************************************************************)
(* Properties of main (Spec).                                              *)
(***************************************************************************)
Processed(f) == file_res[f].state # "Pending"

\* the entries of file f's analyzer output, <<>> unless it is a JSON array
EntriesOf(f) == IF file_out[f].stdout.t = "arr" THEN file_out[f].stdout.a ELSE <<>>

\* the analyzer failed on file f: non-zero exit, or output that is not
\* valid text or not valid JSON
Failed(f) ==
    Processed(f) /\ (~file_out[f].success \/ file_out[f].stdout.t \in {"invalid_utf8", "invalid_json"})

\* entry i of file f survived the --only/--ignore filtering
Survives(f, i) ==
    /\ Processed(f) /\ ~Failed(f)
    /\ Complete(EntriesOf(f)[i]) /\ Allowed(cfg, EntriesOf(f)[i])

\* the entries before i leave the working edit set empty: none of them that
\* survives and has a Fix contributes an edit
EditsEmptyBefore(f, i) ==
    \A j \in 1..(i - 1) :
       (Survives(f, j) /\ HasFix(EntriesOf(f)[j])) => FirstFixEdits(EntriesOf(f)[j]) = <<>>

\* entry i of file f is consumed by fix collection instead of being reported
Consumed(f, i) == cfg.auto_fix /\ HasFix(EntriesOf(f)[i]) /\ EditsEmptyBefore(f, i)

\* C1 as stated: once all files are processed, the exit status is 1 if a
\* diagnostic survived the filtering in some file and 0 if none did.
C1_ExitOnSurvivor ==
    main_pc = "exited" =>
       exit_status = IF \E f \in Files : \E i \in 1..Len(EntriesOf(f)) : Survives(f, i)
                     THEN 1 ELSE 0

\* C1 amended: once all files are processed, the exit status is 1 if some
\* diagnostic was reported (it survived the filtering, its Fix was not
\* collected by --auto-fix and its range has both offsets), whatever its
\* severity, and 0 otherwise; a run aborted by a panic exits with neither.
C1_ExitOnReport ==
    /\ main_pc = "exited" =>
          exit_status = IF \E f \in Files : \E i \in 1..Len(EntriesOf(f)) :
                              /\ Survives(f, i) /\ ~Consumed(f, i)
                              /\ EntriesOf(f)[i].range.t = "range"
                        THEN 1 ELSE 0
    /\ main_pc = "aborted" => exit_status \notin {0, 1}

\* C1 witness: with --auto-fix, the only diagnostic of file 1 was consumed by
\* fix collection, the only diagnostic of file 2 is advice, and the run
\* exits with 1.
C1_Witness ==
    /\ main_pc = "exited" /\ exit_status = 1 /\ cfg.auto_fix
    /\ file_res[1].outcome = <<"fixed">> /\ file_res[1].reports = <<>>
    /\ Len(all_reports) = 1 /\ all_reports[1].kind = "Advice"

\* C6: an entry is rendered or has its fix collected only if it passes
\* --only (by string equality) and is not in the ignore set; a rejected
\* entry adds no report and no edit, also when it carries a fix and
\* --auto-fix is set, and a run in which every entry is rejected exits 0.
C6_RuleFiltering ==
    /\ \A f \in Files :
          /\ \A i \in 1..Len(file_res[f].outcome) :
                /\ file_res[f].outcome[i] \in {"rendered", "fixed"} => Allowed(cfg, EntriesOf(f)[i])
                /\ ~Allowed(cfg, EntriesOf(f)[i]) => file_res[f].outcome[i] \in {"skipped", "filtered"}
          /\ \A k \in 1..Len(file_res[f].reports) :
                /\ cfg.only # None => file_res[f].reports[k].code = cfg.only
                /\ file_res[f].reports[k].code \notin cfg.ignore
          /\ Len(file_res[f].reports)
                = Cardinality({i \in 1..Len(EntriesOf(f)) :
                                  Allowed(cfg, EntriesOf(f)[i]) /\ i <= Len(file_res[f].outcome)
                                  /\ file_res[f].outcome[i] = "rendered"})
          /\ file_res[f].all_edits # <<>> =>
                \E i \in 1..Len(EntriesOf(f)) :
                   Allowed(cfg, EntriesOf(f)[i]) /\ file_res[f].all_edits = FirstFixEdits(EntriesOf(f)[i])
    /\ (main_pc = "exited"
          /\ \A f \in Files : \A i \in 1..Len(EntriesOf(f)) : ~Allowed(cfg, EntriesOf(f)[i]))
       => exit_status = 0 /\ all_reports = <<>>

\* C6 witness: with --auto-fix and --ignore E2, an E2 entry with a fix was
\* rejected; the file is unchanged and the run exits 0.
C6_Witness ==
    /\ main_pc = "exited" /\ exit_status = 0 /\ cfg.auto_fix /\ cfg.ignore = {"E2"}
    /\ \E f \in Files :
          /\ file_res[f].outcome = <<"filtered">>
          /\ HasFix(EntriesOf(f)[1])
          /\ file_res[f].all_edits = <<>> /\ file_res[f].disk = FileText

====
